---- MODULE Spec2Model ----
(***************************************************************************)
(* A model of two parts of MediaCore:                                      *)
(*   - PodcastadminController (controllers/podcastadmin.py): the edit,     *)
(*     save and save_thumb actions over the Podcast table and the thumb    *)
(*     files on disk;                                                      *)
(*   - FTPStorageForm (forms/admin/storage/ftp.py): display and            *)
(*     save_engine_params over a storage engine's _data dictionary.        *)
(* Each request is handled synchronously, so every handler is one atomic   *)
(* action, and the server answers one request before it takes the next.    *)
(*   Spec      the PodcastForm side of the controller: edit and save;      *)
(*   ThumbSpec the ThumbForm side of the controller: save_thumb;           *)
(*   FtpSpec   the storage form: display and save_engine_params.           *)
(* save and edit never read the thumb files, and save_thumb reads of the   *)
(* table only which ids have a row and which slugs are taken.              *)
(***************************************************************************)
EXTENDS Integers, Sequences, FiniteSets, TLC

VARIABLES
    db,          \* Podcast table: id -> row (the flushed rows of DBSession)
    nextId,      \* the next autoincrement primary key of the Podcast table
    files,       \* the thumb files present on disk
    req,         \* the request being answered (inputs and the fault injected)
    resp,        \* what the action answered to that request
    engine_data  \* engine._data of the storage engine handed to the form

vars == <<db, nextId, files, req, resp, engine_data>>

(***************************************************************************)
(* Bounds and encodings                                                    *)
(***************************************************************************)

\* The number of Podcast rows ever created (caps the autoincrement key).
MaxId == 2

\* id == 'new' (the id of a request for a podcast that does not exist yet).
New == 0

\* podcast.id of an instance that was never flushed: Python's None.
NoId == -1

\* Python's None where a string is expected.
None == "None"

\* Python truthiness of a string-or-None value.
Falsy(v) == v \in {None, ""}

Ids == 1..MaxId

(***************************************************************************)
(* Podcast rows                                                            *)
(***************************************************************************)

NoSlug == [base |-> None, n |-> 0]
NoAuthor == [name |-> None, email |-> None]
NoDescription == <<None>>

\* Author(author_name, author_email)
Author(name, email) == [name |-> name, email |-> email]

\* Podcast(): what fetch_row(Podcast, 'new') returns, every column unset.
BlankPodcast ==
    [slug |-> NoSlug, title |-> None, subtitle |-> None, author |-> NoAuthor,
     description |-> NoDescription, copyright |-> None, category |-> None,
     itunes_url |-> None, feedburner_url |-> None, explicit |-> None]

Put(d, id, row) == [i \in DOMAIN d \cup {id} |-> IF i = id THEN row ELSE d[i]]
Remove(d, id) == [i \in DOMAIN d \ {id} |-> d[i]]
NoRows == [i \in {} |-> BlankPodcast]

\* slugify: lower-cases and replaces what is not alphanumeric by dashes.
slugify(s) ==
    CASE s = "My Show" -> "my-show"
      [] s = "Other!"  -> "other"
      [] OTHER         -> s

\* Whether a row other than `ignore` already has slug s.
SlugTaken(d, s, ignore) == \E i \in DOMAIN d : i # ignore /\ d[i].slug = s

RECURSIVE NextFreeSlug(_, _, _, _)
NextFreeSlug(d, base, appendix, ignore) ==
    IF SlugTaken(d, [base |-> base, n |-> appendix], ignore)
    THEN NextFreeSlug(d, base, appendix + 1, ignore)
    ELSE [base |-> base, n |-> appendix]

\* get_available_slug(Podcast, slug, podcast): the slugified slug, with the
\* first free "-2", "-3", ... appended when another row has it.  A slug is
\* [base, n]: n = 0 is the bare slug, n >= 2 the slug with "-n" appended.
get_available_slug(d, slug, ignore) ==
    IF SlugTaken(d, [base |-> slugify(slug), n |-> 0], ignore)
    THEN NextFreeSlug(d, slugify(slug), 2, ignore)
    ELSE [base |-> slugify(slug), n |-> 0]

\* helpers.clean_admin_xhtml: a description is a sequence of markup tokens,
\* cleaning drops the tokens that are not allowed.
AllowedToken(t) == t \in {"text", "<b>"}
clean_admin_xhtml(description) == SelectSeq(description, AllowedToken)

\* create_podcast_stub(): a Podcast with a free stub slug, a stub title and
\* the logged-in user as its author.
create_podcast_stub(d) ==
    [BlankPodcast EXCEPT !.slug = get_available_slug(d, "stub", NoId),
                         !.title = "(Stub)",
                         !.author = Author("admin", "admin@example.org")]

(***************************************************************************)
(* Responses                                                               *)
(***************************************************************************)

\* No request is being handled: the server is idle.
NoRequest == [action |-> "none"]
NoResponse == [kind |-> "none"]
\* redirect(action=..., id=...): raises HTTPFound, the handler ends there.
Redirect(action, id) == [kind |-> "redirect", action |-> action, id |-> id]
\* fetch_row of an id that has no row raises HTTPNotFound.
HTTPNotFound == [kind |-> "error", status |-> 404]
\* An exception that leaves the action.
ServerError == [kind |-> "error", status |-> 500]
\* helpers.best_json_content_type(): application/json when the Accept
\* header of the request allows it, text/plain otherwise.
best_json_content_type(accepts_json) ==
    IF accepts_json THEN "application/json" ELSE "text/plain"
Json(success, message, id, content_type) ==
    [kind |-> "json", success |-> success, message |-> message, id |-> id,
     content_type |-> content_type]

(***************************************************************************)
(* save                                                                    *)
(***************************************************************************)

\* The validated submissions of PodcastForm.
Forms ==
    { [slug |-> "My Show", title |-> "Title A", subtitle |-> "Sub A",
       author_name |-> "Ann", author_email |-> "ann@example.org",
       description |-> <<"text", "<script>">>,
       details |-> [explicit |-> "yes", category |-> "Arts",
                    copyright |-> "(c) A", itunes_url |-> "itunes:a",
                    feedburner_url |-> "feeds:a"]],
      [slug |-> "my-show", title |-> "Title B", subtitle |-> "Sub B",
       author_name |-> "Bob", author_email |-> "bob@example.org",
       description |-> <<"<b>", "text">>,
       details |-> [explicit |-> "clean", category |-> "News",
                    copyright |-> "(c) B", itunes_url |-> "itunes:b",
                    feedburner_url |-> "feeds:b"]],
      [slug |-> "Other!", title |-> "Title C", subtitle |-> "",
       author_name |-> "Cy", author_email |-> "",
       description |-> <<"<script>">>,
       details |-> [explicit |-> "no", category |-> "Arts",
                    copyright |-> "", itunes_url |-> "itunes:c",
                    feedburner_url |-> ""]],
      [slug |-> "other", title |-> "Title D", subtitle |-> "Sub D",
       author_name |-> "Di", author_email |-> "di@example.org",
       description |-> <<"text">>,
       details |-> [explicit |-> "maybe", category |-> "Kids",
                    copyright |-> "(c) D", itunes_url |-> "",
                    feedburner_url |-> "feeds:d"]] }

\* {'yes': True, 'clean': False}.get(details['explicit'], None)
ExplicitFromForm(v) ==
    CASE v = "yes"   -> "True"
      [] v = "clean" -> "False"
      [] OTHER       -> None

\* A faulty variant of SavedRow: the slug is slugified but not checked
\* against the slugs of the other rows.
SavedRow_UncheckedSlug(d, podcast, pid, form) ==
    [podcast EXCEPT
        !.slug = [base |-> slugify(form.slug), n |-> 0],
        !.title = form.title,
        !.subtitle = form.subtitle,
        !.author = Author(form.author_name, form.author_email),
        !.description = clean_admin_xhtml(form.description),
        !.copyright = form.details.copyright,
        !.category = form.details.category,
        !.itunes_url = form.details.itunes_url,
        !.feedburner_url = form.details.feedburner_url,
        !.explicit = IF form.details.explicit = "yes" THEN "True"
                     ELSE IF form.details.explicit = "clean" THEN "False"
                     ELSE None]

\* The assignments of save to the fetched podcast.
SavedRow(d, podcast, pid, form) ==
    [podcast EXCEPT
        !.slug = get_available_slug(d, form.slug, pid),
        !.title = form.title,
        !.subtitle = form.subtitle,
        !.author = Author(form.author_name, form.author_email),
        !.description = clean_admin_xhtml(form.description),
        !.copyright = form.details.copyright,
        !.category = form.details.category,
        !.itunes_url = form.details.itunes_url,
        !.feedburner_url = form.details.feedburner_url,
        !.explicit = ExplicitFromForm(form.details.explicit)]

\* A faulty variant of SaveOutcome: the redirect after the delete returns,
\* so the assignments and DBSession.add run on the deleted podcast.
SaveOutcome_DeleteFallsThrough(d, nid, id, form, delete) ==
    IF id # New /\ id \notin DOMAIN d
    THEN [db |-> d, nextId |-> nid, resp |-> HTTPNotFound]
    ELSE IF id = New /\ delete
    THEN [db |-> d, nextId |-> nid, resp |-> ServerError]
    ELSE IF id = New
    THEN [db |-> Put(d, nid, SavedRow(d, BlankPodcast, NoId, form)),
          nextId |-> nid + 1, resp |-> Redirect("edit", nid)]
    ELSE [db |-> Put(d, id, SavedRow(d, d[id], id, form)),
          nextId |-> nid, resp |-> Redirect("edit", id)]

\* save(id, slug, ..., details, delete): the table, the key counter and the
\* answer after the action.
SaveOutcome(d, nid, id, form, delete) ==
    IF id # New /\ id \notin DOMAIN d
    THEN [db |-> d, nextId |-> nid, resp |-> HTTPNotFound]
    ELSE IF delete
    THEN IF id = New
         \* DBSession.delete of an instance that is not persisted raises.
         THEN [db |-> d, nextId |-> nid, resp |-> ServerError]
         ELSE [db |-> Remove(d, id), nextId |-> nid,
               resp |-> Redirect("index", NoId)]
    ELSE IF id = New
    THEN [db |-> Put(d, nid, SavedRow(d, BlankPodcast, NoId, form)),
          nextId |-> nid + 1, resp |-> Redirect("edit", nid)]
    ELSE [db |-> Put(d, id, SavedRow(d, d[id], id, form)),
          nextId |-> nid, resp |-> Redirect("edit", id)]

save ==
    \E id \in {New} \cup Ids, form \in Forms, delete \in BOOLEAN :
        /\ req = NoRequest
        /\ id = New /\ ~delete => nextId <= MaxId
        /\ LET out == SaveOutcome(db, nextId, id, form, delete)
           IN /\ db' = out.db
              /\ nextId' = out.nextId
              /\ resp' = out.resp
        /\ req' = [action |-> "save", id |-> id, form |-> form,
                   delete |-> delete]
        /\ UNCHANGED <<files, engine_data>>

(***************************************************************************)
(* edit                                                                    *)
(***************************************************************************)

\* A faulty variant of ExplicitToForm: the flag is tested for truth, so
\* False is shown like None.
ExplicitToForm_Truthiness(e) == IF e = "True" THEN "yes" ELSE "no"

\* {True: 'yes', False: 'clean'}.get(podcast.explicit, 'no')
ExplicitToForm(e) ==
    CASE e = "True"  -> "yes"
      [] e = "False" -> "clean"
      [] OTHER       -> "no"

\* The form_values dict edit builds from the podcast, before the update.
FormValues(podcast) ==
    [slug |-> podcast.slug,
     title |-> podcast.title,
     subtitle |-> podcast.subtitle,
     author_name |-> IF podcast.author # NoAuthor /\ ~Falsy(podcast.author.name)
                     THEN podcast.author.name ELSE None,
     author_email |-> IF podcast.author # NoAuthor /\ ~Falsy(podcast.author.email)
                      THEN podcast.author.email ELSE None,
     description |-> podcast.description,
     details |-> [explicit |-> ExplicitToForm(podcast.explicit),
                  category |-> podcast.category,
                  copyright |-> podcast.copyright,
                  itunes_url |-> podcast.itunes_url,
                  feedburner_url |-> podcast.feedburner_url]]

\* dict.update: the keys of `values` replace those of `d`.
Update(d, values) ==
    [k \in DOMAIN d \cup DOMAIN values |->
        IF k \in DOMAIN values THEN values[k] ELSE d[k]]

\* The **values edit is called with: none (a plain GET, the redirect of
\* save), or the submitted values when edit is the error handler.
EditValues(tag) ==
    CASE tag = "title"   -> [title |-> "Typed title"]
      [] tag = "details" -> [details |-> [explicit |-> "clean",
                                          category |-> "Typed", copyright |-> "",
                                          itunes_url |-> "", feedburner_url |-> ""]]
      [] OTHER           -> [k \in {} |-> None]

\* tmpl_context when edit runs: the action routed to and its form errors.
Contexts ==
    { [action |-> "edit", form_errors |-> {}],
      [action |-> "save", form_errors |-> {"title"}],
      [action |-> "save_thumb", form_errors |-> {"thumb"}] }

\* edit(id, **values): the template context returned.
EditOutcome(d, id, values, ctx) ==
    IF id # New /\ id \notin DOMAIN d
    THEN HTTPNotFound
    ELSE [kind |-> "page",
          podcast |-> IF id = New THEN NoId ELSE id,
          form_action |-> "save",
          form_values |-> Update(FormValues(IF id = New THEN BlankPodcast ELSE d[id]),
                                 values),
          thumb_action |-> "save_thumb",
          thumb_form_errors |-> IF ctx.action = "save_thumb"
                                THEN ctx.form_errors ELSE {}]

edit ==
    \E id \in {New} \cup Ids, tag \in {"none", "title", "details"}, ctx \in Contexts :
        /\ req = NoRequest
        /\ resp' = EditOutcome(db, id, EditValues(tag), ctx)
        /\ req' = [action |-> "edit", id |-> id, values |-> tag, ctx |-> ctx]
        /\ UNCHANGED <<db, nextId, files, engine_data>>

(***************************************************************************)
(* save_thumb                                                              *)
(***************************************************************************)

\* config.thumb_sizes[podcast._thumb_dir]: the sizes, in iteration order.
ThumbKeys == <<"s", "m", "l">>

\* helpers.thumb_path(podcast, key, ext='jpg'): one file per podcast id,
\* size key and extension.
thumb_path(pid, key, ext) == [id |-> pid, key |-> key, ext |-> ext]

\* What the environment does to one save_thumb request: no fault, or the
\* step that raises (for resize and thumb_save: at which size), the class of
\* the exception (IOError, or another subclass of Exception), e.message,
\* and whether a failing thumb_img.save had already created its file.
\* The steps are those of lines 202-221, in order:
\*   decode (Image.open), flush (DBSession.add/flush, id 'new' only),
\*   resize and thumb_save (per size), backup_open (up to open(backup_path)),
\*   backup_copy (seek, copyfileobj, close).
NoFault ==
    [step |-> "none", at |-> 0, kind |-> "none", message |-> None,
     partial |-> FALSE]

Raised ==
    { [kind |-> "IOError", message |-> "cannot identify image file"],
      [kind |-> "Exception", message |-> ""],
      [kind |-> "Exception", message |-> "disk quota exceeded"] }

Faults ==
    { [step |-> s, at |-> 0, kind |-> r.kind, message |-> r.message,
       partial |-> FALSE] :
        s \in {"decode", "flush", "backup_open", "backup_copy"}, r \in Raised }
    \cup
    { [step |-> "resize", at |-> i, kind |-> r.kind, message |-> r.message,
       partial |-> FALSE] :
        i \in 1..Len(ThumbKeys), r \in Raised }
    \cup
    { [step |-> "thumb_save", at |-> i, kind |-> r.kind, message |-> r.message,
       partial |-> p] :
        i \in 1..Len(ThumbKeys), r \in Raised, p \in BOOLEAN }

\* A faulty variant of StubFlushed: the stub is added and flushed before
\* the image is opened.
StubFlushed_BeforeDecode(id, fault) == id = New /\ fault.step # "flush"

\* Whether DBSession.add and flush of the new stub completed (lines 204-206).
StubFlushed(id, fault) == id = New /\ fault.step \notin {"decode", "flush"}

\* Whether the file of the i-th size exists after the request.
KeyWritten(i, fault) ==
    CASE fault.step \in {"decode", "flush"} -> FALSE
      [] fault.step = "resize"              -> i < fault.at
      [] fault.step = "thumb_save"          -> \/ i < fault.at
                                               \/ i = fault.at /\ fault.partial
      [] OTHER                              -> TRUE

\* Whether open(backup_path, 'w+b') created the backup file.
BackupWritten(fault) == fault.step \in {"none", "backup_copy"}

\* The files the request creates or overwrites.
FilesWritten(pid, ext, fault) ==
    { thumb_path(pid, ThumbKeys[i], "jpg") :
        i \in {j \in 1..Len(ThumbKeys) : KeyWritten(j, fault)} }
    \cup (IF BackupWritten(fault) THEN {thumb_path(pid, "orig", ext)} ELSE {})

\* success of the JSON answer (lines 223-230).
ThumbSuccess(fault) == fault.step = "none"

\* A faulty variant of ThumbMessage: no except clause for IOError.
ThumbMessage_NoIOErrorClause(fault) ==
    IF fault.step = "none" THEN None ELSE fault.message

\* A faulty variant of ThumbMessage: one message for every exception.
ThumbMessage_Generic(fault) ==
    IF fault.step = "none" THEN None ELSE "Unsupported image type"

\* message of the JSON answer (lines 223-230).
ThumbMessage(fault) ==
    CASE fault.step = "none"    -> None
      [] fault.kind = "IOError" -> "Unsupported image type"
      [] OTHER                  -> fault.message

\* A faulty variant of ThumbResponseId: the key the stub would get is
\* answered even when the stub was never flushed.
ThumbResponseId_Unflushed(id, nid, fault) == IF id # New THEN id ELSE nid

\* podcast.id when the answer is built (line 236).
ThumbResponseId(id, nid, fault) ==
    IF id # New THEN id
    ELSE IF StubFlushed(id, fault) THEN nid
    ELSE NoId

\* save_thumb(id, thumb): the table, the key counter, the files and the
\* answer after the action.  ext is the extension of thumb.filename,
\* accepts_json whether the Accept header allows application/json.
ThumbOutcome(d, nid, fs, id, ext, fault, accepts_json) ==
    IF id # New /\ id \notin DOMAIN d
    THEN [db |-> d, nextId |-> nid, files |-> fs, resp |-> HTTPNotFound]
    ELSE [db |-> IF StubFlushed(id, fault)
                 THEN Put(d, nid, create_podcast_stub(d)) ELSE d,
          nextId |-> IF StubFlushed(id, fault) THEN nid + 1 ELSE nid,
          files |-> fs \cup FilesWritten(IF id = New THEN nid ELSE id, ext, fault),
          resp |-> Json(ThumbSuccess(fault), ThumbMessage(fault),
                        ThumbResponseId(id, nid, fault),
                        best_json_content_type(accepts_json))]

save_thumb ==
    \E id \in {New} \cup Ids, ext \in {"jpg", "png"},
       fault \in {NoFault} \cup Faults, accepts_json \in BOOLEAN :
        /\ req = NoRequest
        /\ fault.step = "flush" => id = New
        /\ StubFlushed(id, fault) => nextId <= MaxId
        /\ LET out == ThumbOutcome(db, nextId, files, id, ext, fault,
                                    accepts_json)
           IN /\ db' = out.db
              /\ nextId' = out.nextId
              /\ files' = out.files
              /\ resp' = out.resp
        /\ req' = [action |-> "save_thumb", id |-> id, ext |-> ext,
                   fault |-> fault, accepts_json |-> accepts_json]
        /\ UNCHANGED engine_data

(***************************************************************************)
(* FTPStorageForm                                                          *)
(***************************************************************************)

\* The keys of specifics, which are also keys of engine._data.
SpecificsKeys == {"path", "rtmp_server_uri"}

\* The values a setting may hold: None, the empty string, a string.
SettingValues == {None, "", "/media", "rtmp://cdn"}

\* dict.get(key, default)
Get(d, key, default) == IF key \in DOMAIN d THEN d[key] ELSE default

\* d[key] = v
SetItem(d, key, v) ==
    [k \in DOMAIN d \cup {key} |-> IF k = key THEN v ELSE d[k]]

\* A faulty variant of SetDefault: plain assignment.
SetDefault_Overwrite(d, key, default) == SetItem(d, key, default)

\* dict.setdefault(key, default): d itself when it has the key.
SetDefault(d, key, default) ==
    IF key \in DOMAIN d THEN d ELSE SetItem(d, key, default)

\* A faulty variant of OrNone: the value as submitted.
OrNone_Identity(v) == v

\* x or None
OrNone(v) == IF Falsy(v) THEN None ELSE v

\* The dicts over the keys of specifics, any key possibly missing.
SpecificsDicts == UNION { [K -> SettingValues] : K \in SUBSET SpecificsKeys }

\* engine._data: the two specifics, and the FTP settings of the engine
\* (one key stands for all of them), any key possibly missing.
EngineDatas ==
    UNION { [K -> SettingValues] : K \in SUBSET SpecificsKeys }
    \cup { SetItem(d, "ftp_server", "old.example.org") :
             d \in UNION { [K -> SettingValues] : K \in SUBSET SpecificsKeys } }

\* The validated values of the 'ftp' field set (fields, lines 26-38).
FtpFields ==
    {"server", "user", "password", "upload_dir", "upload_integrity_retries",
     "http_download_uri", "rtmp_download_uri"}

FtpForms ==
    { [server |-> "ftp.example.org", user |-> "media", password |-> "s3cret",
       upload_dir |-> "uploads", upload_integrity_retries |-> "10",
       http_download_uri |-> "http://dl.example.org",
       rtmp_download_uri |-> "rtmp://dl.example.org"],
      [server |-> "ftp2.example.org", user |-> "anon", password |-> "",
       upload_dir |-> "", upload_integrity_retries |-> "0",
       http_download_uri |-> "http://dl2.example.org",
       rtmp_download_uri |-> ""] }

\* display(value, engine=engine): the value dict as display leaves it and
\* hands it to StorageForm.display.  has_specifics: whether value came with
\* a 'specifics' key; specifics: that dict ({} when it did not).
DisplayValue(data, specifics) ==
    SetDefault(SetDefault(specifics, "path", Get(data, "path", None)),
               "rtmp_server_uri", Get(data, "rtmp_server_uri", None))

display ==
    \E has_specifics \in BOOLEAN, specifics \in SpecificsDicts :
        /\ req = NoRequest
        /\ ~has_specifics => DOMAIN specifics = {}
        /\ resp' = [kind |-> "form",
                    value |-> [specifics |-> DisplayValue(engine_data, specifics)]]
        /\ req' = [action |-> "display", has_specifics |-> has_specifics,
                   specifics |-> specifics]
        /\ UNCHANGED <<db, nextId, files, engine_data>>

\* save_engine_params(engine, specifics, **kwargs): engine._data and whether
\* the method returned.  given: whether specifics was passed (it defaults
\* to None, and None['path'] raises TypeError); a missing key raises
\* KeyError at the line that reads it.
SaveEngineOutcome(data, given, specifics, ftp) ==
    IF ~given \/ "path" \notin DOMAIN specifics
    THEN [data |-> data, resp |-> ServerError]
    ELSE IF "rtmp_server_uri" \notin DOMAIN specifics
    THEN [data |-> SetItem(data, "path", OrNone(specifics["path"])),
          resp |-> ServerError]
    ELSE [data |-> SetItem(SetItem(data, "path", OrNone(specifics["path"])),
                           "rtmp_server_uri",
                           OrNone(specifics["rtmp_server_uri"])),
          resp |-> [kind |-> "saved"]]

save_engine_params ==
    \E given \in BOOLEAN, specifics \in SpecificsDicts, ftp \in FtpForms :
        /\ req = NoRequest
        /\ ~given => DOMAIN specifics = {}
        /\ LET out == SaveEngineOutcome(engine_data, given, specifics, ftp)
           IN /\ engine_data' = out.data
              /\ resp' = out.resp
        /\ req' = [action |-> "save_engine_params", given |-> given,
                   specifics |-> specifics, ftp |-> ftp]
        /\ UNCHANGED <<db, nextId, files>>

\* The answer leaves the server, which is idle again: requests are handled
\* one at a time, each to completion.
respond ==
    /\ req # NoRequest
    /\ req' = NoRequest
    /\ resp' = NoResponse
    /\ UNCHANGED <<db, nextId, files, engine_data>>

Init ==
    /\ db = NoRows
    /\ nextId = 1
    /\ files = {}
    /\ req = NoRequest
    /\ resp = NoResponse
    /\ engine_data = [k \in {} |-> None]

\* The storage engine the form is bound to comes with any settings.
FtpInit ==
    /\ db = NoRows
    /\ nextId = 1
    /\ files = {}
    /\ req = NoRequest
    /\ resp = NoResponse
    /\ engine_data \in EngineDatas

Next ==
    \/ edit
    \/ save
    \/ respond

ThumbNext ==
    \/ save_thumb
    \/ respond

FtpNext ==
    \/ display
    \/ save_engine_params
    \/ respond

Spec == Init /\ [][Next]_vars
ThumbSpec == Init /\ [][ThumbNext]_vars
FtpSpec == FtpInit /\ [][FtpNext]_vars

(***************************************************************************)
(* Properties of save_thumb, checked under ThumbSpec                       *)
(***************************************************************************)

\* The state answers a save_thumb request whose handler reached the try
\* block (fetch_row found the row, or the id was 'new').
ThumbAnswered ==
    /\ req.action = "save_thumb"
    /\ resp.kind = "json"

\* C1: when Image.open raises IOError, save_thumb answers success=false
\* with the message 'Unsupported image type', and the request has written no
\* thumb file and no backup file.
C1_DecodeIOError ==
    [][(/\ req'.action = "save_thumb"
        /\ req'.id = New \/ req'.id \in DOMAIN db
        /\ req'.fault.step = "decode"
        /\ req'.fault.kind = "IOError")
       => /\ resp'.kind = "json"
          /\ resp'.success = FALSE
          /\ resp'.message = "Unsupported image type"
          /\ files' = files]_vars

C1_Witness ==
    /\ ThumbAnswered
    /\ req.fault.step = "decode"
    /\ req.fault.kind = "IOError"
    /\ resp.success = FALSE

\* C2: an exception that is not an IOError, raised at any step of the try
\* block (decode, flush of the new stub, resize, thumb save, backup), does
\* not leave the action: save_thumb answers success=false with the
\* exception's own message.
C2_OtherExceptionCaught ==
    (/\ req.action = "save_thumb"
     /\ req.id = New \/ req.id \in DOMAIN db
     /\ req.fault.kind = "Exception")
    => /\ resp.kind = "json"
       /\ resp.success = FALSE
       /\ resp.message = req.fault.message

C2_Witness ==
    /\ ThumbAnswered
    /\ req.fault.step = "flush"
    /\ req.fault.kind = "Exception"
    /\ resp.message = "disk quota exceeded"

\* C3, as claimed: every answer of save_thumb carries the integer id of the
\* podcast, never null, a boolean success and a message that is null exactly
\* when success is true.
C3_IdNeverNull ==
    ThumbAnswered
    => /\ resp.id \in Ids
       /\ resp.success \in BOOLEAN
       /\ (resp.message = None) <=> resp.success

\* C3, amended: the id of the answer is the podcast's integer id whenever
\* the podcast has a row (an existing id, or 'new' once the stub was
\* flushed), and null for 'new' when decoding or the flush of the stub
\* failed; success is a boolean and message is null exactly when success is
\* true.
C3_IdOfPersistedPodcast ==
    ThumbAnswered
    => /\ req.id # New => resp.id = req.id
       /\ (req.id = New /\ req.fault.step \in {"decode", "flush"})
            => resp.id = NoId
       /\ (req.id = New /\ req.fault.step \notin {"decode", "flush"})
            => resp.id \in Ids /\ resp.id = nextId - 1
       /\ resp.id # NoId => resp.id \in DOMAIN db
       /\ resp.success \in BOOLEAN
       /\ (resp.message = None) <=> resp.success

C3_Witness ==
    /\ ThumbAnswered
    /\ req.id = New
    /\ req.fault.step = "decode"
    /\ resp.id = NoId
    /\ resp.message # None

\* C9: for id 'new' the stub is added and flushed only after the image was
\* opened: when decoding fails no row is created, and when a later step
\* (resize, thumb save, backup) fails the new row stays in the table while
\* the answer reports success=false.
C9_StubFlushedAfterDecode ==
    [][(req'.action = "save_thumb" /\ req'.id = New)
       => /\ req'.fault.step = "decode" => db' = db /\ nextId' = nextId
          /\ req'.fault.step \in {"resize", "thumb_save", "backup_open",
                                  "backup_copy"}
               => /\ DOMAIN db' = DOMAIN db \cup {nextId}
                  /\ nextId \notin DOMAIN db
                  /\ db'[nextId] = create_podcast_stub(db)
                  /\ \A i \in DOMAIN db : db'[i] = db[i]
                  /\ resp'.success = FALSE
                  /\ resp'.id = nextId]_vars

C9_Witness ==
    /\ ThumbAnswered
    /\ req.id = New
    /\ req.fault.step = "backup_copy"
    /\ resp.success = FALSE
    /\ resp.id \in DOMAIN db

(***************************************************************************)
(* Properties of save and edit, checked under Spec                         *)
(***************************************************************************)

\* C4: save with delete set removes the fetched row and redirects to index;
\* none of the submitted values is applied to any row and the podcast is not
\* added again.
C4_DeleteRemovesRow ==
    [][(req'.action = "save" /\ req'.delete)
       => /\ req'.id \in DOMAIN db
               => /\ db' = Remove(db, req'.id)
                  /\ resp' = Redirect("index", NoId)
          /\ req'.id \notin DOMAIN db => db' = db
          /\ nextId' = nextId]_vars

C4_Witness ==
    /\ req.action = "save"
    /\ req.delete
    /\ req.id # New
    /\ req.id \notin DOMAIN db
    /\ resp = Redirect("index", NoId)

\* C5: save without delete, for an existing id or for 'new', leaves the
\* podcast persisted with the submitted title, subtitle, copyright,
\* category, itunes_url and feedburner_url, an author built from
\* author_name and author_email, the slug get_available_slug returns and the
\* cleaned description, and redirects to edit with that podcast's id.
C5_SavePersistsFields ==
    [][(/\ req'.action = "save"
        /\ ~req'.delete
        /\ req'.id = New \/ req'.id \in DOMAIN db)
       => LET f == req'.form
              pid == IF req'.id = New THEN nextId ELSE req'.id
              ignore == IF req'.id = New THEN NoId ELSE req'.id
          IN /\ resp' = Redirect("edit", pid)
             /\ pid \in DOMAIN db'
             /\ db'[pid].title = f.title
             /\ db'[pid].subtitle = f.subtitle
             /\ db'[pid].copyright = f.details.copyright
             /\ db'[pid].category = f.details.category
             /\ db'[pid].itunes_url = f.details.itunes_url
             /\ db'[pid].feedburner_url = f.details.feedburner_url
             /\ db'[pid].author = Author(f.author_name, f.author_email)
             /\ db'[pid].slug = get_available_slug(db, f.slug, ignore)
             /\ db'[pid].description = clean_admin_xhtml(f.description)]_vars

C5_Witness ==
    /\ req.action = "save"
    /\ ~req.delete
    /\ req.id # New
    /\ resp = Redirect("edit", req.id)
    /\ db[req.id].title = req.form.title
    /\ db[req.id].slug.n = 2
    /\ db[req.id].description # req.form.description

\* C10: save maps the form value 'yes' to True, 'clean' to False and any
\* other value to None; edit maps True to 'yes', False to 'clean' and None to
\* 'no'; so after saving a form value in {'yes', 'clean', 'no'}, edit of the
\* same podcast shows that value in form_values.details.explicit.
C10_ExplicitRoundTrip ==
    /\ (req.action = "save" /\ resp.kind = "redirect" /\ resp.action = "edit")
       => LET v == req.form.details.explicit
          IN /\ db[resp.id].explicit =
                    (IF v = "yes" THEN "True"
                     ELSE IF v = "clean" THEN "False" ELSE None)
             /\ v \in {"yes", "clean", "no"}
                  => \A ctx \in Contexts :
                       EditOutcome(db, resp.id, EditValues("none"), ctx)
                           .form_values.details.explicit = v
    /\ (req.action = "edit" /\ resp.kind = "page" /\ req.values = "none"
        /\ req.id # New)
       => resp.form_values.details.explicit =
             (IF db[req.id].explicit = "True" THEN "yes"
              ELSE IF db[req.id].explicit = "False" THEN "clean" ELSE "no")

C10_Witness ==
    /\ req.action = "save"
    /\ resp.kind = "redirect"
    /\ resp.action = "edit"
    /\ req.form.details.explicit = "clean"
    /\ db[resp.id].explicit = "False"

(***************************************************************************)
(* Properties of FTPStorageForm, checked under FtpSpec                     *)
(***************************************************************************)

\* C6, as claimed: after save_engine_params returned for a validated
\* submission, engine._data holds the submitted value of every setting of
\* the form (server, user, password, upload directory, retry count, HTTP and
\* RTMP download URI).
C6_FtpSettingsStored ==
    (req.action = "save_engine_params" /\ resp.kind = "saved")
    => \A f \in FtpFields :
         \E k \in DOMAIN engine_data : engine_data[k] = req.ftp[f]

\* C7: save_engine_params sets engine._data['path'] and
\* engine._data['rtmp_server_uri'] to the submitted specifics, None standing
\* for every falsy value, and leaves every other key of engine._data as it
\* was.
C7_SpecificsStored ==
    [][(/\ req'.action = "save_engine_params"
        /\ req'.given
        /\ DOMAIN req'.specifics = SpecificsKeys)
       => /\ resp'.kind = "saved"
          /\ DOMAIN engine_data' = DOMAIN engine_data \cup SpecificsKeys
          /\ \A k \in SpecificsKeys :
               engine_data'[k] = (IF req'.specifics[k] \in {None, ""}
                                  THEN None ELSE req'.specifics[k])
          /\ \A k \in DOMAIN engine_data \ SpecificsKeys :
               engine_data'[k] = engine_data[k]]_vars

C7_Witness ==
    /\ req.action = "save_engine_params"
    /\ resp.kind = "saved"
    /\ req.specifics["path"] = ""
    /\ req.specifics["rtmp_server_uri"] = "rtmp://cdn"
    /\ engine_data["path"] = None
    /\ "ftp_server" \in DOMAIN engine_data

\* C8: display fills specifics['path'] and specifics['rtmp_server_uri'] from
\* engine._data (None when the engine has no such key) only when the key is
\* absent from the supplied value; a supplied value is never overwritten, and
\* engine._data is not modified.
C8_DisplayDefaults ==
    [][req'.action = "display"
       => /\ DOMAIN resp'.value.specifics = SpecificsKeys
          /\ \A k \in SpecificsKeys :
               resp'.value.specifics[k] =
                   (IF k \in DOMAIN req'.specifics THEN req'.specifics[k]
                    ELSE IF k \in DOMAIN engine_data THEN engine_data[k]
                    ELSE None)
          /\ engine_data' = engine_data]_vars

C8_Witness ==
    /\ req.action = "display"
    /\ DOMAIN req.specifics = {"path"}
    /\ "path" \in DOMAIN engine_data
    /\ engine_data["path"] = "/media"
    /\ req.specifics["path"] = None
    /\ resp.value.specifics["path"] = None
    /\ "rtmp_server_uri" \in DOMAIN engine_data
    /\ resp.value.specifics["rtmp_server_uri"] = engine_data["rtmp_server_uri"]
    /\ engine_data["rtmp_server_uri"] = "rtmp://cdn"
====
